---- MODULE Spec2Model ----
(***************************************************************************)
(* findme-api (src/main.py): the album/job submission path, the status     *)
(* poll, the recovery-code access gate and the protected read and delete   *)
(* routes, over the metadata store (tables albums, jobs, photos,           *)
(* face_embeddings, face_clusters, photo_faces) and the blob store.        *)
(*                                                                         *)
(* Every route is a request that walks through its store operations one    *)
(* at a time.  Spec runs the requests one after another (a request ends    *)
(* before the next one or a pipeline step begins); SpecFaults adds a store *)
(* operation that fails; SpecConc lets the store operations of two        *)
(* requests interleave, pipeline steps falling between requests.           *)
(*                                                                         *)
(* Text is a sequence of one-character strings; Python's None and "" are   *)
(* both the empty sequence wherever the code only tests truthiness.        *)
(***************************************************************************)
EXTENDS Integers, Sequences, FiniteSets, TLC

(* ------------------------------ bounds --------------------------------- *)
\* album rows ever inserted (ids are never reused)
MaxAlbums == 2
\* job rows ever inserted
MaxJobs == MaxAlbums

(* --------------------------- configuration ----------------------------- *)
\* MAX_PHOTOS_PER_ALBUM, scaled down from the default of 500
MAX_PHOTOS_PER_ALBUM == 1
\* MAX_ZIP_MB, scaled down from the default of 50
MAX_ZIP_MB == 1
\* images in the archive a pipeline run ingests: what the upload guard lets through
ImagesPerArchive == MAX_PHOTOS_PER_ALBUM

(* ------------------------------- text ---------------------------------- *)
UpperLetters == <<"A", "B", "C", "D", "E", "F", "G", "H", "J", "K", "L", "M">>
LowerLetters == <<"a", "b", "c", "d", "e", "f", "g", "h", "j", "k", "l", "m">>

\* str.upper() on one character
UpperChar(ch) ==
    IF \E i \in 1..Len(LowerLetters) : LowerLetters[i] = ch
    THEN UpperLetters[CHOOSE i \in 1..Len(LowerLetters) : LowerLetters[i] = ch]
    ELSE ch

Upper(s) == [i \in 1..Len(s) |-> UpperChar(s[i])]

\* str.replace(old, new) for a one-character old; new is a sequence
RECURSIVE Replace(_, _, _)
Replace(s, old, new) ==
    IF s = <<>> THEN <<>>
    ELSE (IF Head(s) = old THEN new ELSE <<Head(s)>>) \o Replace(Tail(s), old, new)

IsSpace(ch) == ch \in {" ", "\t"}

RECURSIVE LStrip(_)
LStrip(s) == IF s # <<>> /\ IsSpace(Head(s)) THEN LStrip(Tail(s)) ELSE s

RECURSIVE RStrip(_)
RStrip(s) ==
    IF s # <<>> /\ IsSpace(s[Len(s)]) THEN RStrip(SubSeq(s, 1, Len(s) - 1)) ELSE s

\* str.strip()
Strip(s) == RStrip(LStrip(s))

\* s[-n:]
LastN(s, n) == IF Len(s) >= n THEN SubSeq(s, Len(s) - n + 1, Len(s)) ELSE s

(* ------------------------- recovery code helpers ----------------------- *)
\* the draws of secrets.choice the model follows: twelve characters of the
\* confusable-free alphabet
RawCodes == { UpperLetters }

\* _generate_recovery_code(length) on the drawn characters raw
GenerateRecoveryCode(raw, length) ==
    IF length >= 12
    THEN SubSeq(raw, 1, 4) \o <<"-">> \o SubSeq(raw, 5, 8) \o <<"-">> \o SubSeq(raw, 9, 12)
    ELSE IF length >= 8
    THEN SubSeq(raw, 1, 4) \o <<"-">> \o SubSeq(raw, 5, 8)
    ELSE SubSeq(raw, 1, length)

\* _normalize_code
NormalizeCode(code) ==
    Replace(Replace(Upper(Strip(code)), " ", <<>>), "_", <<"-">>)

\* hashlib.sha256(data).hexdigest(): a digest that differs for different data
Sha256(data) == <<"#">> \o data

\* _hash_code once _require_code_salt has passed
HashCode(saltv, code) == Sha256(saltv \o <<":">> \o NormalizeCode(code))

\* _hint_from_code
HintFromCode(code) == LastN(Replace(NormalizeCode(code), "-", <<>>), 4)

\* _get_album_code_or_403: x_album_code or code_qs (empty when both are unset)
ProvidedCode(x_album_code, code_qs) ==
    IF x_album_code # <<>> THEN x_album_code ELSE code_qs

(* ------------------------------- state --------------------------------- *)
VARIABLES
    ALBUM_CODE_SALT,  \* the process-wide salt; empty when the secret is not set
    albums,           \* table albums: a set of rows
    jobs,             \* table jobs
    photos,           \* table photos
    faces,            \* table face_embeddings
    clusters,         \* table face_clusters
    links,            \* table photo_faces
    blobs,            \* the uploads bucket: the set of object paths it holds
    nextId,           \* the next identifier each table hands out
    faulted,          \* a store operation has failed (at most one does)
    procs,            \* the requests: operation, position, arguments, locals, response
    before            \* the store as a request served alone found it

tables == <<albums, jobs, photos, faces, clusters, links>>
store == <<tables, blobs, nextId>>
vars == <<ALBUM_CODE_SALT, store, faulted, procs, before>>

Procs == {"r1", "r2"}

\* the store as one value
Snap == [albums |-> albums, jobs |-> jobs, photos |-> photos, faces |-> faces,
         clusters |-> clusters, links |-> links, blobs |-> blobs]

NoSnap == [albums |-> {}, jobs |-> {}, photos |-> {}, faces |-> {},
           clusters |-> {}, links |-> {}, blobs |-> {}]

\* an uploaded file's content: its length, whether it opens as a ZIP, its entries
NoContent == [size |-> 0, zip |-> FALSE, names |-> <<>>]

NoArgs == [fingerprint |-> <<>>, uploadKey |-> <<>>, album_id |-> 0, clusterId |-> 0,
           x_album_code |-> <<>>, code |-> <<>>,
           filename |-> <<>>, content |-> NoContent]

NoLoc == [album_id |-> 0, reused |-> FALSE, recovery_code |-> <<>>,
          photo_ids |-> {}, photo_paths |-> {}, face_thumb_paths |-> {},
          zip_paths |-> {}, todo |-> {}]

NoResp == [status |-> 0, detail |-> "", albumId |-> 0, jobId |-> 0,
           recoveryCode |-> <<>>, albumStatus |-> "", progress |-> 0,
           photoCount |-> 0, errorMessage |-> "", items |-> {},
           uploadKey |-> <<>>, fingerprint |-> <<>>]

IdleProc == [op |-> "none", pc |-> "idle", args |-> NoArgs, loc |-> NoLoc,
             resp |-> NoResp]

\* object paths: a photo's storage_path, a face thumbnail, an uploaded archive
Digits == <<"1", "2", "3", "4", "5", "6", "7", "8", "9">>
PhotoPath(id) == <<"p", Digits[id]>>
ZipPath(n) == <<"u", Digits[n]>>
FaceThumbPath(album_id, face_id) == <<"a", Digits[album_id], "t", Digits[face_id]>>

(* ------------------------- rows of earlier runs ------------------------- *)
\* The metadata store outlives the process.  The databases the process may be
\* started against: an empty one, one holding a finished code-protected album,
\* one holding a queued code-protected album.
LegacySalt == <<"s">>
LegacyCode == GenerateRecoveryCode(UpperLetters, 12)
LegacyKey == <<"z">>

LegacyAlbum(st, pg, n) ==
    [id |-> 1, fingerprint |-> <<"f">>, status |-> st, progress |-> pg,
     photo_count |-> n, upload_key |-> LegacyKey, error_message |-> "",
     access_code_hash |-> HashCode(LegacySalt, LegacyCode),
     access_code_hint |-> HintFromCode(LegacyCode)]

Seeds == {"empty", "protected_completed", "protected_queued"}

\* the store the process is started against
InitStore ==
    /\ procs = [p \in Procs |-> IdleProc]
    /\ faulted = FALSE
    /\ before = NoSnap
    /\ \E seed \in Seeds :
          CASE seed = "empty" ->
                  /\ albums = {} /\ jobs = {} /\ photos = {} /\ faces = {}
                  /\ clusters = {} /\ links = {} /\ blobs = {}
                  /\ nextId = [album |-> 1, job |-> 1, photo |-> 1, upload |-> 1]
            [] seed = "protected_completed" ->
                  /\ albums = {LegacyAlbum("completed", 100, 1)}
                  /\ jobs = {[id |-> 1, status |-> "completed", album_id |-> 1,
                              zip_path |-> LegacyKey]}
                  /\ photos = {[id |-> 1, album_id |-> 1, storage_path |-> PhotoPath(1)]}
                  /\ faces = {[id |-> 1, album_id |-> 1, photo_id |-> 1]}
                  /\ clusters = {[id |-> 1, album_id |-> 1]}
                  /\ links = {[photo_id |-> 1, cluster_id |-> 1]}
                  /\ blobs = {PhotoPath(1), FaceThumbPath(1, 1), LegacyKey}
                  /\ nextId = [album |-> 2, job |-> 2, photo |-> 2, upload |-> 1]
            [] seed = "protected_queued" ->
                  /\ albums = {LegacyAlbum("queued", 0, 0)}
                  /\ jobs = {[id |-> 1, status |-> "pending", album_id |-> 1,
                              zip_path |-> LegacyKey]}
                  /\ photos = {} /\ faces = {} /\ clusters = {} /\ links = {}
                  /\ blobs = {LegacyKey}
                  /\ nextId = [album |-> 2, job |-> 2, photo |-> 1, upload |-> 1]

\* the process started with the salt set to the one the stored hashes were made with
Init ==
    /\ ALBUM_CODE_SALT = LegacySalt
    /\ InitStore

(* ------------------------------ requests ------------------------------- *)
InFlight(p) == procs[p].pc # "idle"
CanBegin(p) == ~InFlight(p)

\* the store remembered when request p begins, if no other request is in flight
Remember(p) == IF \A q \in Procs \ {p} : ~InFlight(q) THEN Snap ELSE NoSnap

\* a request begins: its arguments are recorded
Begin(p, op, args) ==
    [op |-> op, pc |-> "begin", args |-> args, loc |-> NoLoc, resp |-> NoResp]

\* a request ends with a response
Finish(pr, resp) == [pr EXCEPT !.pc = "done", !.resp = resp]

Error(code, detail) == [NoResp EXCEPT !.status = code, !.detail = detail]

\* the response has been sent: the request's frame is gone
Return(p) ==
    /\ procs[p].pc = "done"
    /\ procs' = [procs EXCEPT ![p] = IdleProc]
    /\ before' = NoSnap
    /\ UNCHANGED <<ALBUM_CODE_SALT, faulted, store>>

\* the most recently created row of a set of rows (created_at follows the id)
Latest(rows) == CHOOSE r \in rows : \A q \in rows : q.id <= r.id

(* ------------------------------- upload -------------------------------- *)
\* str.lower() on the letters file and entry names are written with
NameUpper == <<"A", "B", "E", "G", "I", "J", "N", "P", "Z">>
NameLower == <<"a", "b", "e", "g", "i", "j", "n", "p", "z">>

LowerChar(ch) ==
    IF \E i \in 1..Len(NameUpper) : NameUpper[i] = ch
    THEN NameLower[CHOOSE i \in 1..Len(NameUpper) : NameUpper[i] = ch]
    ELSE ch

Lower(s) == [i \in 1..Len(s) |-> LowerChar(s[i])]

\* str.endswith
EndsWith(s, suffix) ==
    /\ Len(s) >= Len(suffix)
    /\ SubSeq(s, Len(s) - Len(suffix) + 1, Len(s)) = suffix

\* the name test of _count_images_in_zip: a .jpg, .jpeg or .png entry, no directory
IsImageName(name) ==
    LET n == Lower(name)
    IN  ~(\/ EndsWith(n, <<"/">>)
          \/ ~(\/ EndsWith(n, <<".", "j", "p", "g">>)
               \/ EndsWith(n, <<".", "j", "p", "e", "g">>)
               \/ EndsWith(n, <<".", "p", "n", "g">>)))

\* the loop of _count_images_in_zip over the first k entries: it stops counting
\* once the count has passed the limit
RECURSIVE CountImages(_, _)
CountImages(names, k) ==
    IF k = 0 THEN 0
    ELSE LET count == CountImages(names, k - 1)
         IN  IF count > MAX_PHOTOS_PER_ALBUM THEN count
             ELSE IF IsImageName(names[k]) THEN count + 1
             ELSE count

\* the counter with .png entries not recognised
CountImagesInZipJpegOnly(names) ==
    Cardinality({i \in 1..Len(names) :
                    \/ EndsWith(Lower(names[i]), <<".", "j", "p", "g">>)
                    \/ EndsWith(Lower(names[i]), <<".", "j", "p", "e", "g">>)})

CountImagesInZip(names) == CountImages(names, Len(names))

\* Guard 1 of upload_zip
ZipTooLarge(content) == content.size > MAX_ZIP_MB * 1024 * 1024

\* upload_zip up to the size guard
UploadBegin(p, filename, content) ==
    /\ CanBegin(p)
    /\ nextId.upload <= MaxAlbums
    /\ before' = Remember(p)
    /\ LET pr == Begin(p, "upload", [NoArgs EXCEPT !.filename = filename,
                                                   !.content = content])
       IN  procs' = [procs EXCEPT ![p] =
              IF ~EndsWith(Lower(filename), <<".", "z", "i", "p">>)
              THEN Finish(pr, Error(400, "Only .zip supported"))
              ELSE IF content.size = 0
              THEN Finish(pr, Error(400, "Empty file"))
              ELSE IF ZipTooLarge(content)
              THEN Finish(pr, Error(413, "ZIP too large"))
              ELSE [pr EXCEPT !.pc = "count"]]
    /\ UNCHANGED <<ALBUM_CODE_SALT, faulted, store>>

\* Guard 2 of upload_zip
UploadCount(p) ==
    /\ procs[p].op = "upload" /\ procs[p].pc = "count"
    /\ LET pr == procs[p]
           img_count == CountImagesInZip(pr.args.content.names)
       IN  procs' = [procs EXCEPT ![p] =
              IF ~pr.args.content.zip
              THEN Finish(pr, Error(400, "Invalid ZIP file"))
              ELSE IF img_count = 0
              THEN Finish(pr, Error(400, "ZIP contains no supported images"))
              ELSE IF img_count > MAX_PHOTOS_PER_ALBUM
              THEN Finish(pr, Error(413, "Too many photos in ZIP"))
              ELSE [pr EXCEPT !.pc = "put"]]
    /\ UNCHANGED <<ALBUM_CODE_SALT, before, faulted, store>>

\* the archive stored under a fresh object path
UploadPut(p) ==
    /\ procs[p].op = "upload" /\ procs[p].pc = "put"
    /\ blobs' = blobs \cup {ZipPath(nextId.upload)}
    /\ nextId' = [nextId EXCEPT !.upload = @ + 1]
    /\ procs' = [procs EXCEPT ![p] =
          Finish(procs[p], [NoResp EXCEPT !.status = 200,
                                          !.uploadKey = ZipPath(nextId.upload),
                                          !.fingerprint = ZipPath(nextId.upload)])]
    /\ UNCHANGED <<ALBUM_CODE_SALT, before, faulted, tables>>

(* ------------------------------- submit -------------------------------- *)
\* the names the module binds at import time
ModuleNames ==
    {"os", "io", "zipfile", "requests", "hashlib", "secrets", "string", "uuid4",
     "Optional", "List", "Dict", "Any", "FastAPI", "HTTPException", "UploadFile",
     "File", "Query", "Header", "CORSMiddleware", "Response", "BaseModel",
     "create_client", "Client"}

NoMint == [code |-> <<>>, hash |-> <<>>, hint |-> <<>>]

\* the try block of process_album: the salt check, the code, its hash and hint,
\* then the timestamp; any exception leaves all of them unset
MintRecoveryCode(saltv, raw) ==
    IF saltv = <<>> THEN NoMint
    ELSE IF {"datetime", "timezone"} \subseteq ModuleNames
         THEN LET code == GenerateRecoveryCode(raw, 12)
              IN  [code |-> code, hash |-> HashCode(saltv, code),
                   hint |-> HintFromCode(code)]
         ELSE NoMint

ActiveAlbumStatus == {"queued", "processing"}
ActiveJobStatus == {"pending", "processing"}

\* submits that have begun and may still insert an album or a job row
PendingAlbumInserts == Cardinality({q \in Procs : procs[q].pc = "insert_album"})
PendingJobInserts ==
    Cardinality({q \in Procs : procs[q].pc \in {"insert_album", "job_check", "insert_job"}})

\* the response of process_album
SubmitResponse(album_id, job_id, recovery_code, reused) ==
    [NoResp EXCEPT !.status = 200, !.albumId = album_id, !.jobId = job_id,
                   !.recoveryCode = IF recovery_code # <<>> /\ ~reused
                                    THEN recovery_code ELSE <<>>]

\* the check with the archive key forgotten
MissingParamsFingerprintOnly(f, k) == f = <<>>

\* not payload.fingerprint or not payload.uploadKey
MissingParams(f, k) == f = <<>> \/ k = <<>>

\* the lookup finding nothing to reuse
ReusableAlbumNever(rows, fingerprint) == 0

\* the lookup with "queued" left out of the reusable statuses
ReusableAlbumProcessingOnly(rows, fingerprint) ==
    LET existing == {r \in rows : r.fingerprint = fingerprint}
    IN  IF existing # {} /\ Latest(existing).status = "processing"
        THEN Latest(existing).id
        ELSE 0

\* the lookup with the status test left out
ReusableAlbumAnyStatus(rows, fingerprint) ==
    LET existing == {r \in rows : r.fingerprint = fingerprint}
    IN  IF existing # {} THEN Latest(existing).id ELSE 0

\* the id of the album process_album reuses for a fingerprint, 0 when there is
\* none: the most recently created album with the fingerprint, if it is active
ReusableAlbum(rows, fingerprint) ==
    LET existing == {r \in rows : r.fingerprint = fingerprint}
    IN  IF existing # {} /\ Latest(existing).status \in ActiveAlbumStatus
        THEN Latest(existing).id
        ELSE 0

\* process_album up to the lookup of a reusable album
SubmitLookup(p, f, k) ==
    /\ CanBegin(p)
    /\ before' = Remember(p)
    /\ nextId.album + PendingAlbumInserts <= MaxAlbums
    /\ nextId.job + PendingJobInserts <= MaxJobs
    /\ LET pr == [Begin(p, "submit", [NoArgs EXCEPT !.fingerprint = f, !.uploadKey = k])
                    EXCEPT !.pc = "insert_album"]
           album_id == ReusableAlbum(albums, Strip(f))
       IN  procs' = [procs EXCEPT ![p] =
              IF MissingParams(f, k)
              THEN Finish(pr, Error(400, "Missing params"))
              ELSE IF album_id # 0
              THEN [pr EXCEPT !.pc = "job_check",
                              !.loc.album_id = album_id,
                              !.loc.reused = TRUE]
              ELSE pr]
    /\ UNCHANGED <<ALBUM_CODE_SALT, faulted, store>>

\* the album row process_album inserts
NewAlbumRow(id, fingerprint, upload_key, mint) ==
    [id |-> id, fingerprint |-> fingerprint, status |-> "queued", progress |-> 0,
     photo_count |-> 0, upload_key |-> upload_key, error_message |-> "",
     access_code_hash |-> mint.hash, access_code_hint |-> mint.hint]

\* the insert resetting the fingerprint's existing row instead of adding one
InsertAlbumResetting(rows, row) ==
    IF \E r \in rows : r.fingerprint = row.fingerprint
    THEN {IF r.fingerprint = row.fingerprint
          THEN [r EXCEPT !.status = "queued", !.progress = 0, !.photo_count = 0]
          ELSE r : r \in rows}
    ELSE rows \cup {row}

\* an upsert on the fingerprint in place of the insert
InsertAlbumUpsert(rows, row) ==
    IF \E r \in rows : r.fingerprint = row.fingerprint
    THEN {IF r.fingerprint = row.fingerprint THEN [row EXCEPT !.id = r.id] ELSE r :
             r \in rows}
    ELSE rows \cup {row}

\* sb.table("albums").insert(row)
InsertAlbum(rows, row) == rows \cup {row}

SubmitInsertAlbum(p) ==
    /\ procs[p].pc = "insert_album"
    /\ \E raw \in RawCodes :
         LET mint == MintRecoveryCode(ALBUM_CODE_SALT, raw)
             id == nextId.album
         IN  /\ albums' = InsertAlbum(albums,
                   NewAlbumRow(id, Strip(procs[p].args.fingerprint),
                               Strip(procs[p].args.uploadKey), mint))
             /\ nextId' = [nextId EXCEPT !.album = id + 1]
             /\ procs' = [procs EXCEPT ![p].pc = "job_check",
                                       ![p].loc.album_id = id,
                                       ![p].loc.recovery_code = mint.code]
    /\ UNCHANGED <<ALBUM_CODE_SALT, before, faulted, jobs, photos, faces, clusters, links, blobs>>

\* the active jobs of an album
ActiveJobs(album_id) ==
    {j \in jobs : j.album_id = album_id /\ j.status \in ActiveJobStatus}

SubmitJobCheck(p) ==
    /\ procs[p].pc = "job_check"
    /\ LET pr == procs[p]
           found == ActiveJobs(pr.loc.album_id)
       IN  procs' = [procs EXCEPT ![p] =
              IF found # {}
              THEN Finish(pr, SubmitResponse(pr.loc.album_id, Latest(found).id,
                                             pr.loc.recovery_code, pr.loc.reused))
              ELSE [pr EXCEPT !.pc = "insert_job"]]
    /\ UNCHANGED <<ALBUM_CODE_SALT, before, faulted, store>>

SubmitInsertJob(p) ==
    /\ procs[p].pc = "insert_job"
    /\ LET pr == procs[p]
           job_id == nextId.job
       IN  /\ jobs' = jobs \cup
                 {[id |-> job_id, status |-> "pending", album_id |-> pr.loc.album_id,
                   zip_path |-> Strip(pr.args.uploadKey)]}
           /\ nextId' = [nextId EXCEPT !.job = job_id + 1]
           /\ procs' = [procs EXCEPT ![p] =
                 Finish(pr, SubmitResponse(pr.loc.album_id, job_id,
                                           pr.loc.recovery_code, pr.loc.reused))]
    /\ UNCHANGED <<ALBUM_CODE_SALT, before, faulted, albums, photos, faces, clusters, links, blobs>>

(* ----------------------------- access gate ----------------------------- *)
\* the gate letting the caller through when the salt is missing
RequireAlbumAccessSaltMissingAllowed(rows, saltv, album_id, x_album_code, code_qs) ==
    LET res == {r \in rows : r.id = album_id}
    IN  IF res = {} THEN Error(404, "Album not found")
        ELSE LET row == CHOOSE r \in res : TRUE
                 stored_hash == Strip(row.access_code_hash)
                 provided == ProvidedCode(x_album_code, code_qs)
             IN  IF stored_hash = <<>> THEN NoResp
                 ELSE IF provided = <<>> THEN Error(403, "Missing album code")
                 ELSE IF saltv = <<>> THEN NoResp
                 ELSE IF HashCode(saltv, provided) # stored_hash
                 THEN Error(403, "Invalid album code")
                 ELSE NoResp

\* the gate with a missing code let through
RequireAlbumAccessMissingCodeAllowed(rows, saltv, album_id, x_album_code, code_qs) ==
    LET res == {r \in rows : r.id = album_id}
    IN  IF res = {} THEN Error(404, "Album not found")
        ELSE LET row == CHOOSE r \in res : TRUE
                 stored_hash == Strip(row.access_code_hash)
                 provided == ProvidedCode(x_album_code, code_qs)
             IN  IF stored_hash = <<>> \/ provided = <<>> THEN NoResp
                 ELSE IF saltv = <<>>
                 THEN Error(500, "Server misconfigured (missing ALBUM_CODE_SALT)")
                 ELSE IF HashCode(saltv, provided) # stored_hash
                 THEN Error(403, "Invalid album code")
                 ELSE NoResp

\* _require_album_access: the error it raises, or NoResp when it returns
RequireAlbumAccess(rows, saltv, album_id, x_album_code, code_qs) ==
    LET res == {r \in rows : r.id = album_id}
    IN  IF res = {} THEN Error(404, "Album not found")
        ELSE LET row == CHOOSE r \in res : TRUE
                 stored_hash == Strip(row.access_code_hash)
                 provided == ProvidedCode(x_album_code, code_qs)
             IN  IF stored_hash = <<>> THEN NoResp
                 ELSE IF provided = <<>> THEN Error(403, "Missing album code")
                 ELSE IF saltv = <<>>
                 THEN Error(500, "Server misconfigured (missing ALBUM_CODE_SALT)")
                 ELSE IF HashCode(saltv, provided) # stored_hash
                 THEN Error(403, IF row.access_code_hint # <<>>
                                 THEN "Invalid album code (hint)"
                                 ELSE "Invalid album code")
                 ELSE NoResp

\* what callers send as (X-Album-Code header, code query parameter)
WrongCode == <<"M", "L", "K", "J">>
CodeInputs ==
    { <<<<>>, <<>>>>,
      <<LegacyCode, <<>>>>,
      <<WrongCode, LegacyCode>> }

AlbumIdInputs == 1..MaxAlbums
ClusterIdInputs == 1..2

\* a protected route begins: the gate, then either the error or the next step
Gated(p, op, album_id, clusterId, creds, next) ==
    LET pr == Begin(p, op, [NoArgs EXCEPT !.album_id = album_id,
                                           !.clusterId = clusterId,
                                           !.x_album_code = creds[1],
                                           !.code = creds[2]])
        gate == RequireAlbumAccess(albums, ALBUM_CODE_SALT, album_id, creds[1], creds[2])
    IN  IF gate.status # 0 THEN Finish(pr, gate) ELSE [pr EXCEPT !.pc = next]

(* ------------------------------ getStatus ------------------------------ *)
\* get_job answering 404 for a missing row
StatusResponseNotFound(rows, album_id) ==
    LET res == {r \in rows : r.id = album_id}
    IN  IF res = {}
        THEN Error(404, "Album not found")
        ELSE LET row == CHOOSE r \in res : TRUE
             IN  [NoResp EXCEPT !.status = 200, !.albumId = row.id,
                                !.albumStatus = row.status,
                                !.progress = row.progress,
                                !.photoCount = row.photo_count,
                                !.errorMessage = row.error_message]

\* the response of get_job: the row's fields, or a synthetic queued answer
StatusResponse(rows, album_id) ==
    LET res == {r \in rows : r.id = album_id}
    IN  IF res = {}
        THEN [NoResp EXCEPT !.status = 200, !.albumId = album_id,
                            !.albumStatus = "queued"]
        ELSE LET row == CHOOSE r \in res : TRUE
             IN  [NoResp EXCEPT !.status = 200, !.albumId = row.id,
                                !.albumStatus = row.status,
                                !.progress = row.progress,
                                !.photoCount = row.photo_count,
                                !.errorMessage = row.error_message]

\* get_job
GetJob(p, album_id) ==
    /\ CanBegin(p)
    /\ before' = Remember(p)
    /\ procs' = [procs EXCEPT ![p] =
          Finish(Begin(p, "getStatus", [NoArgs EXCEPT !.album_id = album_id]),
                 StatusResponse(albums, album_id))]
    /\ UNCHANGED <<ALBUM_CODE_SALT, faulted, store>>

(* ----------------------------- listClusters ---------------------------- *)
ListClustersGate(p, album_id, creds) ==
    /\ CanBegin(p)
    /\ before' = Remember(p)
    /\ procs' = [procs EXCEPT ![p] =
          Gated(p, "listClusters", album_id, 0, creds, "read_clusters")]
    /\ UNCHANGED <<ALBUM_CODE_SALT, faulted, store>>

ListClustersRead(p) ==
    /\ procs[p].pc = "read_clusters"
    /\ procs' = [procs EXCEPT ![p] =
          Finish(procs[p], [NoResp EXCEPT !.status = 200,
                                          !.albumId = procs[p].args.album_id,
                                          !.items = {c.id : c \in
                                             {c \in clusters :
                                                c.album_id = procs[p].args.album_id}}])]
    /\ UNCHANGED <<ALBUM_CODE_SALT, before, faulted, store>>

(* ------------------------------ listPhotos ----------------------------- *)
\* the photo ids linked to a cluster (photo_faces rows by cluster_id)
LinkedPhotoIds(clusterId) == {l.photo_id : l \in {l \in links : l.cluster_id = clusterId}}

ListPhotosGate(p, album_id, clusterId, creds) ==
    /\ CanBegin(p)
    /\ before' = Remember(p)
    /\ procs' = [procs EXCEPT ![p] =
          Gated(p, "listPhotos", album_id, clusterId, creds, "read_links")]
    /\ UNCHANGED <<ALBUM_CODE_SALT, faulted, store>>

ListPhotosLinks(p) ==
    /\ procs[p].op = "listPhotos" /\ procs[p].pc = "read_links"
    /\ LET pr == procs[p]
           photo_ids == LinkedPhotoIds(pr.args.clusterId)
       IN  procs' = [procs EXCEPT ![p] =
              IF photo_ids = {}
              THEN Finish(pr, [NoResp EXCEPT !.status = 200,
                                             !.albumId = pr.args.album_id])
              ELSE [pr EXCEPT !.pc = "read_photos", !.loc.photo_ids = photo_ids]]
    /\ UNCHANGED <<ALBUM_CODE_SALT, before, faulted, store>>

ListPhotosRead(p) ==
    /\ procs[p].op = "listPhotos" /\ procs[p].pc = "read_photos"
    /\ LET pr == procs[p]
       IN  procs' = [procs EXCEPT ![p] =
              Finish(pr, [NoResp EXCEPT !.status = 200, !.albumId = pr.args.album_id,
                                        !.items = {ph.id : ph \in
                                           {ph \in photos : ph.id \in pr.loc.photo_ids}}])]
    /\ UNCHANGED <<ALBUM_CODE_SALT, before, faulted, store>>

(* ---------------------------- downloadArchive -------------------------- *)
DownloadGate(p, album_id, clusterId, creds) ==
    /\ CanBegin(p)
    /\ before' = Remember(p)
    /\ procs' = [procs EXCEPT ![p] =
          Gated(p, "download", album_id, clusterId, creds, "read_links")]
    /\ UNCHANGED <<ALBUM_CODE_SALT, faulted, store>>

DownloadLinks(p) ==
    /\ procs[p].op = "download" /\ procs[p].pc = "read_links"
    /\ LET pr == procs[p]
           photo_ids == LinkedPhotoIds(pr.args.clusterId)
       IN  procs' = [procs EXCEPT ![p] =
              IF photo_ids = {}
              THEN Finish(pr, Error(404, "No photos for cluster"))
              ELSE [pr EXCEPT !.pc = "read_photos", !.loc.photo_ids = photo_ids]]
    /\ UNCHANGED <<ALBUM_CODE_SALT, before, faulted, store>>

\* the photos read, the cap, and the archive built from the blobs that load
DownloadRead(p) ==
    /\ procs[p].op = "download" /\ procs[p].pc = "read_photos"
    /\ LET pr == procs[p]
           items == {ph \in photos : ph.id \in pr.loc.photo_ids}
       IN  procs' = [procs EXCEPT ![p] =
              IF items = {} THEN Finish(pr, Error(404, "No photos found"))
              ELSE IF Cardinality(items) > MAX_PHOTOS_PER_ALBUM
              THEN Finish(pr, Error(413, "Too many photos to download"))
              ELSE Finish(pr, [NoResp EXCEPT !.status = 200,
                                             !.albumId = pr.args.album_id,
                                             !.items = {ph.id : ph \in
                                                {ph \in items : ph.storage_path \in blobs}}])]
    /\ UNCHANGED <<ALBUM_CODE_SALT, before, faulted, store>>

(* ------------------------------ deleteAlbum ---------------------------- *)
\* delete_album with the archive blob removed ahead of the gate
DeleteGateAfterZipRemoval(p, album_id, creds) ==
    /\ CanBegin(p)
    /\ before' = Remember(p)
    /\ procs' = [procs EXCEPT ![p] =
          Gated(p, "delete", album_id, 0, creds, "read_photos")]
    /\ blobs' = blobs \ {r.upload_key : r \in {r \in albums : r.id = album_id}}
    /\ UNCHANGED <<ALBUM_CODE_SALT, faulted, tables, nextId>>

DeleteGate(p, album_id, creds) ==
    /\ CanBegin(p)
    /\ before' = Remember(p)
    /\ procs' = [procs EXCEPT ![p] =
          Gated(p, "delete", album_id, 0, creds, "read_photos")]
    /\ UNCHANGED <<ALBUM_CODE_SALT, faulted, store>>

DeleteReadPhotos(p) ==
    /\ procs[p].op = "delete" /\ procs[p].pc = "read_photos"
    /\ LET photo_rows == {ph \in photos : ph.album_id = procs[p].args.album_id}
       IN  procs' = [procs EXCEPT ![p].pc = "read_faces",
                                  ![p].loc.photo_paths =
                                      {ph.storage_path : ph \in photo_rows} \ {<<>>},
                                  ![p].loc.photo_ids = {ph.id : ph \in photo_rows},
                                  ![p].loc.todo = {ph.id : ph \in photo_rows}]
    /\ UNCHANGED <<ALBUM_CODE_SALT, before, faulted, store>>

DeleteReadFaces(p) ==
    /\ procs[p].op = "delete" /\ procs[p].pc = "read_faces"
    /\ LET face_rows == {f \in faces : f.album_id = procs[p].args.album_id}
       IN  procs' = [procs EXCEPT ![p].pc = "read_zip",
                                  ![p].loc.face_thumb_paths =
                                      {FaceThumbPath(procs[p].args.album_id, f.id) :
                                          f \in face_rows}]
    /\ UNCHANGED <<ALBUM_CODE_SALT, before, faulted, store>>

DeleteReadZip(p) ==
    /\ procs[p].op = "delete" /\ procs[p].pc = "read_zip"
    /\ LET alb == {r \in albums : r.id = procs[p].args.album_id}
       IN  procs' = [procs EXCEPT ![p].pc = "rm_photo_blobs",
                                  ![p].loc.zip_paths =
                                      {r.upload_key : r \in alb} \ {<<>>}]
    /\ UNCHANGED <<ALBUM_CODE_SALT, before, faulted, store>>

\* the cleanup with the album row deleted first
CleanupOrderAlbumFirst ==
    <<"del_album", "del_links", "del_faces", "del_clusters", "del_photos", "del_jobs">>

\* the deletes of the cleanup try block, in the order the code runs them
CleanupOrder ==
    <<"del_links", "del_faces", "del_clusters", "del_photos", "del_jobs", "del_album">>

CleanupSteps == {CleanupOrder[i] : i \in 1..Len(CleanupOrder)}

\* request pr has run the cleanup delete `at`: the next one, or the response
\* once the block is through
Advance(pr, at) ==
    LET i == CHOOSE n \in 1..Len(CleanupOrder) : CleanupOrder[n] = at
    IN  IF i < Len(CleanupOrder)
        THEN [pr EXCEPT !.pc = CleanupOrder[i + 1]]
        ELSE Finish(pr, [NoResp EXCEPT !.status = 200, !.albumId = pr.args.album_id,
                                       !.photoCount = Cardinality(pr.loc.photo_ids)])

\* one storage remove of the try block, skipped for an empty list
StorageRemove(p, at, paths, next) ==
    /\ procs[p].op = "delete" /\ procs[p].pc = at
    /\ \/ /\ paths = {}
          /\ procs' = [procs EXCEPT ![p].pc = next]
          /\ UNCHANGED <<blobs, faulted>>
       \/ /\ paths # {}
          /\ blobs' = blobs \ paths
          /\ procs' = [procs EXCEPT ![p].pc = next]
          /\ UNCHANGED faulted
    /\ UNCHANGED <<ALBUM_CODE_SALT, before, tables, nextId>>

\* a storage remove raises and nothing catches it: the call ends with 500
StorageRemoveFailsUncaught(p, at, paths) ==
    /\ procs[p].op = "delete" /\ procs[p].pc = at
    /\ paths # {}
    /\ ~faulted
    /\ faulted' = TRUE
    /\ procs' = [procs EXCEPT ![p] = Finish(procs[p], Error(500, "storage remove failed"))]
    /\ UNCHANGED <<ALBUM_CODE_SALT, before, store>>

\* a storage remove raises: the except clause swallows it, the rest of the try
\* block is skipped and the database cleanup follows
StorageRemoveFails(p, at, paths) ==
    /\ procs[p].op = "delete" /\ procs[p].pc = at
    /\ paths # {}
    /\ ~faulted
    /\ faulted' = TRUE
    /\ procs' = [procs EXCEPT ![p].pc = CleanupOrder[1]]
    /\ UNCHANGED <<ALBUM_CODE_SALT, before, store>>

DeleteRemoveFails(p) ==
    \/ StorageRemoveFails(p, "rm_photo_blobs", procs[p].loc.photo_paths)
    \/ StorageRemoveFails(p, "rm_face_thumbs", procs[p].loc.face_thumb_paths)
    \/ StorageRemoveFails(p, "rm_zip", procs[p].loc.zip_paths)

DeleteRemovePhotoBlobs(p) ==
    StorageRemove(p, "rm_photo_blobs", procs[p].loc.photo_paths, "rm_face_thumbs")

DeleteRemoveFaceThumbs(p) ==
    StorageRemove(p, "rm_face_thumbs", procs[p].loc.face_thumb_paths, "rm_zip")

DeleteRemoveZip(p) ==
    StorageRemove(p, "rm_zip", procs[p].loc.zip_paths, CleanupOrder[1])

\* a delete of the cleanup try block raises: the request ends with 500
CleanupFails(p, at) ==
    /\ procs[p].op = "delete" /\ procs[p].pc = at
    /\ ~faulted
    /\ faulted' = TRUE
    /\ procs' = [procs EXCEPT ![p] = Finish(procs[p], Error(500, "DB cleanup failed"))]
    /\ UNCHANGED <<ALBUM_CODE_SALT, before, store>>

\* for pid in photo_ids: delete the photo_faces rows of pid
DeleteLinks(p) ==
    /\ procs[p].op = "delete" /\ procs[p].pc = "del_links"
    /\ IF procs[p].loc.todo = {}
       THEN /\ procs' = [procs EXCEPT ![p] = Advance(procs[p], "del_links")]
            /\ UNCHANGED links
       ELSE \E pid \in procs[p].loc.todo :
               /\ links' = {l \in links : l.photo_id # pid}
               /\ procs' = [procs EXCEPT ![p].loc.todo = @ \ {pid}]
    /\ UNCHANGED <<ALBUM_CODE_SALT, before, faulted, albums, jobs, photos, faces, clusters, blobs, nextId>>

DeleteFaces(p) ==
    /\ procs[p].op = "delete" /\ procs[p].pc = "del_faces"
    /\ faces' = {f \in faces : f.album_id # procs[p].args.album_id}
    /\ procs' = [procs EXCEPT ![p] = Advance(procs[p], "del_faces")]
    /\ UNCHANGED <<ALBUM_CODE_SALT, before, faulted, albums, jobs, photos, clusters, links, blobs, nextId>>

DeleteClusters(p) ==
    /\ procs[p].op = "delete" /\ procs[p].pc = "del_clusters"
    /\ clusters' = {c \in clusters : c.album_id # procs[p].args.album_id}
    /\ procs' = [procs EXCEPT ![p] = Advance(procs[p], "del_clusters")]
    /\ UNCHANGED <<ALBUM_CODE_SALT, before, faulted, albums, jobs, photos, faces, links, blobs, nextId>>

DeletePhotos(p) ==
    /\ procs[p].op = "delete" /\ procs[p].pc = "del_photos"
    /\ photos' = {ph \in photos : ph.album_id # procs[p].args.album_id}
    /\ procs' = [procs EXCEPT ![p] = Advance(procs[p], "del_photos")]
    /\ UNCHANGED <<ALBUM_CODE_SALT, before, faulted, albums, jobs, faces, clusters, links, blobs, nextId>>

DeleteJobs(p) ==
    /\ procs[p].op = "delete" /\ procs[p].pc = "del_jobs"
    /\ jobs' = {j \in jobs : j.album_id # procs[p].args.album_id}
    /\ procs' = [procs EXCEPT ![p] = Advance(procs[p], "del_jobs")]
    /\ UNCHANGED <<ALBUM_CODE_SALT, before, faulted, albums, photos, faces, clusters, links, blobs, nextId>>

\* the album row
DeleteAlbumRow(p) ==
    /\ procs[p].op = "delete" /\ procs[p].pc = "del_album"
    /\ albums' = {r \in albums : r.id # procs[p].args.album_id}
    /\ procs' = [procs EXCEPT ![p] = Advance(procs[p], "del_album")]
    /\ UNCHANGED <<ALBUM_CODE_SALT, before, faulted, jobs, photos, faces, clusters, links, blobs, nextId>>

DeleteCleanupFails(p) == \E at \in CleanupSteps : CleanupFails(p, at)

(* ------------------------------- pipeline ------------------------------ *)
\* The ingestion run of a job: it is not part of src/main.py and follows the
\* design text (mark processing, ingest the images, cluster, complete; any
\* error marks the album failed and rolls nothing back).
AlbumOf(j) == {r \in albums : r.id = j.album_id}

SetAlbum(id, st, pg, n, err) ==
    {IF r.id = id
     THEN [r EXCEPT !.status = st, !.progress = pg, !.photo_count = n,
                    !.error_message = err]
     ELSE r : r \in albums}

SetJob(id, st) == {IF j.id = id THEN [j EXCEPT !.status = st] ELSE j : j \in jobs}

PipelineStart(j) ==
    /\ j \in jobs /\ j.status = "pending"
    /\ \E a \in AlbumOf(j) :
          /\ a.status = "queued"
          /\ albums' = SetAlbum(a.id, "processing", 5, a.photo_count, "")
    /\ jobs' = SetJob(j.id, "processing")
    /\ UNCHANGED <<ALBUM_CODE_SALT, before, faulted, photos, faces, clusters, links, blobs, nextId, procs>>

PipelineIngest(j) ==
    /\ j \in jobs /\ j.status = "processing"
    /\ \E a \in AlbumOf(j) :
          /\ a.status = "processing"
          /\ a.photo_count < ImagesPerArchive
          /\ a.progress < 85
          /\ photos' = photos \cup
                {[id |-> nextId.photo, album_id |-> a.id,
                  storage_path |-> PhotoPath(nextId.photo)]}
          /\ blobs' = blobs \cup {PhotoPath(nextId.photo)}
          /\ albums' = SetAlbum(a.id, "processing",
                                10 + (70 * (a.photo_count + 1)) \div ImagesPerArchive,
                                a.photo_count + 1, "")
    /\ nextId' = [nextId EXCEPT !.photo = @ + 1]
    /\ UNCHANGED <<ALBUM_CODE_SALT, before, faulted, jobs, faces, clusters, links, procs>>

\* one face per photo, all of one person: one cluster named after its first photo
PipelineCluster(j) ==
    /\ j \in jobs /\ j.status = "processing"
    /\ \E a \in AlbumOf(j) :
          LET mine == {ph \in photos : ph.album_id = a.id}
              first == CHOOSE ph \in mine : \A q \in mine : ph.id <= q.id
          IN  /\ a.status = "processing"
              /\ a.photo_count = ImagesPerArchive
              /\ a.progress < 85
              /\ mine # {}
              /\ faces' = faces \cup
                    {[id |-> ph.id, album_id |-> a.id, photo_id |-> ph.id] : ph \in mine}
              /\ blobs' = blobs \cup {FaceThumbPath(a.id, ph.id) : ph \in mine}
              /\ clusters' = clusters \cup {[id |-> first.id, album_id |-> a.id]}
              /\ links' = links \cup
                    {[photo_id |-> ph.id, cluster_id |-> first.id] : ph \in mine}
              /\ albums' = SetAlbum(a.id, "processing", 95, a.photo_count, "")
    /\ UNCHANGED <<ALBUM_CODE_SALT, before, faulted, jobs, photos, nextId, procs>>

PipelineComplete(j) ==
    /\ j \in jobs /\ j.status = "processing"
    /\ \E a \in AlbumOf(j) :
          /\ a.status = "processing"
          /\ a.photo_count = ImagesPerArchive
          /\ albums' = SetAlbum(a.id, "completed", 100, a.photo_count, "")
    /\ jobs' = SetJob(j.id, "completed")
    /\ UNCHANGED <<ALBUM_CODE_SALT, before, faulted, photos, faces, clusters, links, blobs, nextId, procs>>

PipelineFail(j) ==
    /\ j \in jobs /\ j.status = "processing"
    /\ \E a \in AlbumOf(j) :
          /\ a.status = "processing"
          /\ albums' = SetAlbum(a.id, "failed", a.progress, a.photo_count, "error")
    /\ jobs' = SetJob(j.id, "failed")
    /\ UNCHANGED <<ALBUM_CODE_SALT, before, faulted, photos, faces, clusters, links, blobs, nextId, procs>>

(* --------------------------- specifications ---------------------------- *)
\* what callers send as (fingerprint, uploadKey)
SubmitInputs ==
    { <<<<>>, <<"z">>>>,
      <<<<"f">>, <<>>>>,
      <<<<"f">>, <<"z">>>>,
      <<<<"f", " ">>, <<"z">>>>,
      <<<<" ">>, <<" ">>>> }

\* the steps of a submit by request p, its inputs drawn from I
SubmitSteps(p, I) ==
    \/ \E i \in I : SubmitLookup(p, i[1], i[2])
    \/ SubmitInsertAlbum(p)
    \/ SubmitJobCheck(p)
    \/ SubmitInsertJob(p)

\* the steps of the read routes
ReadSteps(p) ==
    \/ \E a \in AlbumIdInputs : GetJob(p, a)
    \/ \E a \in AlbumIdInputs, c \in CodeInputs : ListClustersGate(p, a, c)
    \/ ListClustersRead(p)
    \/ \E a \in AlbumIdInputs, cl \in ClusterIdInputs, c \in CodeInputs :
          ListPhotosGate(p, a, cl, c)
    \/ ListPhotosLinks(p)
    \/ ListPhotosRead(p)
    \/ \E a \in AlbumIdInputs, cl \in ClusterIdInputs, c \in CodeInputs :
          DownloadGate(p, a, cl, c)
    \/ DownloadLinks(p)
    \/ DownloadRead(p)

\* the steps of the protected read routes, their credentials drawn from C
ProtectedReadSteps(p, C) ==
    \/ \E a \in AlbumIdInputs, c \in C : ListClustersGate(p, a, c)
    \/ ListClustersRead(p)
    \/ \E a \in AlbumIdInputs, cl \in ClusterIdInputs, c \in C :
          ListPhotosGate(p, a, cl, c)
    \/ ListPhotosLinks(p)
    \/ ListPhotosRead(p)
    \/ \E a \in AlbumIdInputs, cl \in ClusterIdInputs, c \in C :
          DownloadGate(p, a, cl, c)
    \/ DownloadLinks(p)
    \/ DownloadRead(p)

\* the steps of a deleteAlbum, its credentials drawn from C
DeleteSteps(p, C) ==
    \/ \E a \in AlbumIdInputs, c \in C : DeleteGate(p, a, c)
    \/ DeleteReadPhotos(p)
    \/ DeleteReadFaces(p)
    \/ DeleteReadZip(p)
    \/ DeleteRemovePhotoBlobs(p)
    \/ DeleteRemoveFaceThumbs(p)
    \/ DeleteRemoveZip(p)
    \/ DeleteLinks(p)
    \/ DeleteFaces(p)
    \/ DeleteClusters(p)
    \/ DeletePhotos(p)
    \/ DeleteJobs(p)
    \/ DeleteAlbumRow(p)

\* a store operation of request p fails
Fault(p) ==
    \/ DeleteRemoveFails(p)
    \/ DeleteCleanupFails(p)

\* the steps of the pipeline
Pipeline ==
    \E j \in jobs :
       \/ PipelineStart(j)
       \/ PipelineIngest(j)
       \/ PipelineCluster(j)
       \/ PipelineComplete(j)
       \/ PipelineFail(j)

Quiet == \A p \in Procs : ~InFlight(p)

\* the names of archive entries, and the entry lists of uploaded archives
EntryNames ==
    { <<"a", ".", "j", "p", "g">>, <<"B", ".", "P", "N", "G">>,
      <<"a", ".", "j", "p", "e", "g">>, <<"n", ".", "b">>, <<"a", ".", "j", "p", "g", "/">> }

EntryLists ==
    UNION {[1..n -> EntryNames] : n \in 0..(MAX_PHOTOS_PER_ALBUM + 1)}

FileNames == { <<"a", ".", "z", "i", "p">>, <<"A", ".", "Z", "I", "P">>, <<"a", ".", "b">> }

\* the files callers upload: any length up to one byte past the limit; what is
\* no ZIP has no entries
UploadInputs ==
    {c \in [size : {0, 1, MAX_ZIP_MB * 1024 * 1024, MAX_ZIP_MB * 1024 * 1024 + 1},
            zip : BOOLEAN, names : EntryLists] : c.zip \/ c.names = <<>>}

\* the steps of an upload
UploadSteps(p) ==
    \/ \E f \in FileNames, c \in UploadInputs : UploadBegin(p, f, c)
    \/ UploadCount(p)
    \/ UploadPut(p)

\* requests served one after another, pipeline steps between them, a store
\* that answers every operation
Next ==
    \/ SubmitSteps("r1", SubmitInputs)
    \/ ReadSteps("r1")
    \/ DeleteSteps("r1", CodeInputs)
    \/ Return("r1")
    \/ Quiet /\ Pipeline

Spec == Init /\ [][Next]_vars

\* what a caller who holds the album's code sends
HolderCodeInputs == { <<LegacyCode, <<>>>> }

\* submissions, and deletions by callers who hold the album's code, served one
\* after another over a store whose operations may fail
NextFaults ==
    \/ SubmitSteps("r1", SubmitInputs)
    \/ DeleteSteps("r1", HolderCodeInputs)
    \/ Fault("r1")
    \/ Return("r1")
    \/ Quiet /\ Pipeline

SpecFaults == Init /\ [][NextFaults]_vars

\* two callers who hold the album's code: the store operations of their
\* submissions of one archive and of their deletions interleave; pipeline steps
\* fall between requests
ConcSubmitInputs == { <<<<"f">>, <<"z">>>>, <<<<"f", " ">>, <<"z">>>> }

NextConc ==
    \/ \E p \in Procs :
          \/ SubmitSteps(p, ConcSubmitInputs)
          \/ DeleteSteps(p, HolderCodeInputs)
          \/ Return(p)
    \/ Quiet /\ Pipeline

SpecConc == Init /\ [][NextConc]_vars

\* uploads served one after another
NextUpload ==
    \/ UploadSteps("r1")
    \/ Return("r1")

SpecUpload == Init /\ [][NextUpload]_vars

\* the process started without the salt against the same stores
InitNoSalt ==
    /\ ALBUM_CODE_SALT = <<>>
    /\ InitStore

SpecNoSalt == InitNoSalt /\ [][Next]_vars

\* the minted code as its holder may type it: as issued, in lower case, with
\* blanks around it, with blanks around its dashes, with underscores, blanks or
\* nothing for the dashes; and a code that is not the album's
TypedLower(code) ==
    [i \in 1..Len(code) |->
        IF \E k \in 1..Len(UpperLetters) : UpperLetters[k] = code[i]
        THEN LowerLetters[CHOOSE k \in 1..Len(UpperLetters) : UpperLetters[k] = code[i]]
        ELSE code[i]]

TypedCodes ==
    { LegacyCode,
      TypedLower(LegacyCode),
      <<" ">> \o LegacyCode \o <<"\t">>,
      Replace(LegacyCode, "-", <<" ", "-", " ">>),
      Replace(LegacyCode, "-", <<"_">>),
      Replace(LegacyCode, "-", <<" ">>),
      Replace(LegacyCode, "-", <<>>),
      WrongCode }

TypedCodeInputs == {<<c, <<>>>> : c \in TypedCodes}

\* protected requests by callers who type the code in these forms
NextVerify ==
    \/ ProtectedReadSteps("r1", TypedCodeInputs)
    \/ DeleteSteps("r1", TypedCodeInputs)
    \/ Return("r1")

SpecVerify == Init /\ [][NextVerify]_vars

\* a store written while the per-album limit was configured one higher: a
\* finished code-protected album whose one cluster is linked to every photo
InitLarger ==
    /\ ALBUM_CODE_SALT = LegacySalt
    /\ procs = [p \in Procs |-> IdleProc]
    /\ faulted = FALSE
    /\ before = NoSnap
    /\ albums = {LegacyAlbum("completed", 100, MAX_PHOTOS_PER_ALBUM + 1)}
    /\ jobs = {[id |-> 1, status |-> "completed", album_id |-> 1, zip_path |-> LegacyKey]}
    /\ photos = {[id |-> n, album_id |-> 1, storage_path |-> PhotoPath(n)] :
                    n \in 1..(MAX_PHOTOS_PER_ALBUM + 1)}
    /\ faces = {[id |-> n, album_id |-> 1, photo_id |-> n] :
                   n \in 1..(MAX_PHOTOS_PER_ALBUM + 1)}
    /\ clusters = {[id |-> 1, album_id |-> 1]}
    /\ links = {[photo_id |-> n, cluster_id |-> 1] : n \in 1..(MAX_PHOTOS_PER_ALBUM + 1)}
    /\ blobs = {PhotoPath(n) : n \in 1..(MAX_PHOTOS_PER_ALBUM + 1)}
                \cup {FaceThumbPath(1, n) : n \in 1..(MAX_PHOTOS_PER_ALBUM + 1)}
                \cup {LegacyKey}
    /\ nextId = [album |-> 2, job |-> 2, photo |-> MAX_PHOTOS_PER_ALBUM + 2, upload |-> 1]

SpecLarger == InitLarger /\ [][Next]_vars

(* ------------------------------ properties ----------------------------- *)
\* the request r1 serves
Served == procs["r1"]

ProtectedOps == {"listClusters", "listPhotos", "download", "delete"}

\* the albums a submit found with its fingerprint when it began
SameFingerprint ==
    {r \in before.albums : r.fingerprint = Strip(Served.args.fingerprint)}

\* the most recently created of them
LatestSameFingerprint ==
    CHOOSE r \in SameFingerprint : \A q \in SameFingerprint : q.id <= r.id

SubmitServed ==
    /\ Served.op = "submit" /\ Served.pc = "done"
    /\ Served.args.fingerprint # <<>> /\ Served.args.uploadKey # <<>>

\* C1: a submit whose fingerprint's most recently created album is queued or
\* processing returns that album's id, adds no album row and carries no
\* recovery code; if that album has a pending or processing job, the submit
\* returns that job's id and adds no job row.
C1_SubmitIdempotentWhileActive ==
    (/\ SubmitServed
     /\ SameFingerprint # {}
     /\ LatestSameFingerprint.status \in {"queued", "processing"})
    => LET active == {j \in before.jobs :
                         /\ j.album_id = LatestSameFingerprint.id
                         /\ j.status \in {"pending", "processing"}}
       IN  /\ Served.resp.status = 200
           /\ Served.resp.albumId = LatestSameFingerprint.id
           /\ albums = before.albums
           /\ Served.resp.recoveryCode = <<>>
           /\ active # {} =>
                 /\ Served.resp.jobId \in {j.id : j \in active}
                 /\ jobs = before.jobs

\* a submit has reused an active album and returned the job it already had
C1_Witness ==
    /\ SubmitServed
    /\ SameFingerprint # {}
    /\ LatestSameFingerprint.status \in {"queued", "processing"}
    /\ Served.resp.albumId = LatestSameFingerprint.id
    /\ \E j \in before.jobs : j.id = Served.resp.jobId /\ j.status = "pending"

\* the album row a protected request found when it began
GateRows == {r \in before.albums : r.id = Served.args.album_id}

GateErrorDetails ==
    {"Album not found", "Missing album code", "Invalid album code",
     "Invalid album code (hint)", "Server misconfigured (missing ALBUM_CODE_SALT)"}

GateRefused == Served.pc = "done" /\ Served.resp.status = 403
GatePassed == Served.resp.detail \notin GateErrorDetails

\* C2: on an album with a stored hash (the salt configured) each protected
\* route is refused with 403 when no code is supplied or the supplied code's
\* hash differs from the stored one, and passes the gate when it matches; on an
\* album with no stored hash the gate passes whatever is supplied.
C2_AccessGate ==
    (Served.op \in ProtectedOps /\ Served.pc # "idle" /\ GateRows # {})
    => LET row == CHOOSE r \in GateRows : TRUE
           supplied == IF Served.args.x_album_code # <<>>
                       THEN Served.args.x_album_code ELSE Served.args.code
       IN  IF row.access_code_hash = <<>> THEN GatePassed
           ELSE ALBUM_CODE_SALT # <<>> =>
                   IF \/ supplied = <<>>
                      \/ HashCode(ALBUM_CODE_SALT, supplied) # row.access_code_hash
                   THEN GateRefused
                   ELSE GatePassed

\* a deleteAlbum with the right code went through on a code-protected album
C2_Witness ==
    /\ Served.op = "delete" /\ Served.pc = "done" /\ Served.resp.status = 200
    /\ \E r \in GateRows : r.access_code_hash # <<>>
    /\ Served.args.x_album_code = LegacyCode

\* C3: every album has at most one job that is pending or processing, also
\* when the store operations of two submits interleave.
C3_OneActiveJobPerAlbum ==
    \A a \in albums :
       Cardinality({j \in jobs : j.album_id = a.id
                                 /\ j.status \in {"pending", "processing"}}) <= 1

\* C4: with the salt configured, a submit that creates an album stores a
\* non-empty hash and hint on the row and returns the recovery code whose salted
\* hash is the stored one; a submit that reuses an album returns no code.
C4_NewAlbumCarriesRecoveryCode ==
    (SubmitServed /\ Served.resp.status = 200 /\ ALBUM_CODE_SALT # <<>>)
    => IF \E r \in before.albums : r.id = Served.resp.albumId
       THEN Served.resp.recoveryCode = <<>>
       ELSE \A r \in albums :
               r.id = Served.resp.albumId =>
                  /\ r.access_code_hash # <<>>
                  /\ r.access_code_hint # <<>>
                  /\ Served.resp.recoveryCode # <<>>
                  /\ HashCode(ALBUM_CODE_SALT, Served.resp.recoveryCode)
                        = r.access_code_hash

\* C5: getStatus answers 200 for every identifier: the synthetic queued/0/0
\* answer when the album has no row, the row's own fields when it has one; and it
\* leaves the store as it found it.
C5_StatusNeverNotFound ==
    (Served.op = "getStatus" /\ Served.pc = "done")
    => /\ Served.resp.status = 200
       /\ Snap = before
       /\ IF GateRows = {}
          THEN /\ Served.resp.albumStatus = "queued"
               /\ Served.resp.progress = 0
               /\ Served.resp.photoCount = 0
               /\ Served.resp.errorMessage = ""
          ELSE \E r \in GateRows :
                  /\ Served.resp.albumId = r.id
                  /\ Served.resp.albumStatus = r.status
                  /\ Served.resp.progress = r.progress
                  /\ Served.resp.photoCount = r.photo_count
                  /\ Served.resp.errorMessage = r.error_message

\* getStatus has answered for an album whose row was created and deleted since
C5_Witness ==
    /\ Served.op = "getStatus" /\ Served.pc = "done"
    /\ GateRows = {}
    /\ Served.args.album_id < nextId.album
    /\ Served.resp.albumStatus = "queued"

\* C6: a submit whose fingerprint's most recently created album is completed or
\* failed leaves that row as it was and creates a new album (another id, queued,
\* progress 0, photoCount 0) with a new pending job bound to it.
C6_TerminalAlbumNotResurrected ==
    (/\ SubmitServed
     /\ SameFingerprint # {}
     /\ LatestSameFingerprint.status \in {"completed", "failed"})
    => /\ Served.resp.status = 200
       /\ LatestSameFingerprint \in albums
       /\ \A r \in before.albums : r.id # Served.resp.albumId
       /\ \E r \in albums :
             /\ r.id = Served.resp.albumId
             /\ r.status = "queued" /\ r.progress = 0 /\ r.photo_count = 0
       /\ \E j \in jobs \ before.jobs :
             /\ j.id = Served.resp.jobId
             /\ j.status = "pending"
             /\ j.album_id = Served.resp.albumId

\* a submit has answered for a fingerprint whose last album had failed
C6_Witness ==
    /\ SubmitServed
    /\ SameFingerprint # {}
    /\ LatestSameFingerprint.status = "failed"
    /\ Served.resp.albumId # LatestSameFingerprint.id

\* C7: no step changes the accessCodeHash or accessCodeHint of an album row
\* that stays in the table.
C7_AccessCodeImmutable ==
    [][\A r \in albums : \A q \in albums' :
          q.id = r.id => /\ q.access_code_hash = r.access_code_hash
                         /\ q.access_code_hint = r.access_code_hint]_vars

\* a submit has reused an active album that carries a hash
C7_Witness ==
    /\ SubmitServed
    /\ \E r \in albums :
          /\ r.id = Served.resp.albumId
          /\ r.access_code_hash # <<>>
          /\ r \in before.albums

\* C8: at every step of a deleteAlbum run, also one that a failing store
\* operation aborts, if the album row is gone then no job, photo,
\* face-observation or cluster row of the album and no link of its photos or
\* clusters remains.
C8_AlbumRowDeletedLast ==
    LET a == Served.args.album_id
        hadPhotos == {ph.id : ph \in {ph \in before.photos : ph.album_id = a}}
        hadClusters == {c.id : c \in {c \in before.clusters : c.album_id = a}}
    IN  (Served.op = "delete" /\ Served.pc # "idle" /\ \A r \in albums : r.id # a)
        => /\ \A j \in jobs : j.album_id # a
           /\ \A ph \in photos : ph.album_id # a
           /\ \A f \in faces : f.album_id # a
           /\ \A c \in clusters : c.album_id # a
           /\ \A l \in links : l.photo_id \notin hadPhotos
                               /\ l.cluster_id \notin hadClusters

\* a deleteAlbum has removed an album that had photos, clusters and links
C8_Witness ==
    /\ Served.op = "delete" /\ Served.pc = "done" /\ Served.resp.status = 200
    /\ \A r \in albums : r.id # Served.args.album_id
    /\ \E ph \in before.photos : ph.album_id = Served.args.album_id
    /\ \E l \in before.links : TRUE

\* C9: a submit with an empty fingerprint or an empty archive key ends at once
\* with 400 and leaves the store as it found it.
C9_EmptyParamsRejected ==
    (/\ Served.op = "submit" /\ Served.pc # "idle"
     /\ (Served.args.fingerprint = <<>> \/ Served.args.uploadKey = <<>>))
    => /\ Served.pc = "done"
       /\ Served.resp.status = 400
       /\ Snap = before

\* a submit with a fingerprint and no archive key has been rejected
C9_Witness ==
    /\ Served.op = "submit" /\ Served.pc = "done"
    /\ Served.args.fingerprint # <<>> /\ Served.args.uploadKey = <<>>
    /\ Served.resp.status = 400

\* C10: a protected request refused with 403 leaves every table and the blob
\* store as it found them.
C10_AuthFailureNoMutation ==
    (Served.op \in ProtectedOps /\ Served.pc = "done" /\ Served.resp.status = 403)
    => Snap = before

\* a deleteAlbum with a wrong code was refused on an album that has photos
C10_Witness ==
    /\ Served.op = "delete" /\ Served.pc = "done" /\ Served.resp.status = 403
    /\ Served.args.x_album_code = WrongCode
    /\ \E ph \in before.photos : ph.album_id = Served.args.album_id

\* the file an upload was called with
Uploaded == Served.args.content

\* the entries of the uploaded archive that are images of a supported kind
UploadedImages ==
    {i \in 1..Len(Uploaded.names) :
        Uploaded.names[i] \in { <<"a", ".", "j", "p", "g">>, <<"B", ".", "P", "N", "G">>,
                                <<"a", ".", "j", "p", "e", "g">> }}

\* C11: an uploaded .zip longer than the byte limit is refused with 413 by the
\* size guard, before its entries are looked at; one within the limit whose
\* supported-image entries outnumber the per-album limit is refused with 413 and
\* never stored; a refusal leaves the blob store and every table as they were.
C11_UploadLimits ==
    (/\ Served.op = "upload" /\ Served.pc # "idle"
     /\ Served.args.filename \in { <<"a", ".", "z", "i", "p">>, <<"A", ".", "Z", "I", "P">> }
     /\ Uploaded.size > 0)
    => /\ Uploaded.size > 1048576 =>
             /\ Served.pc = "done"
             /\ Served.resp.status = 413
             /\ Served.resp.detail = "ZIP too large"
       /\ (Uploaded.size <= 1048576 /\ Uploaded.zip /\ Cardinality(UploadedImages) > 1) =>
             /\ Served.pc \in {"count", "done"}
             /\ Served.pc = "done" =>
                   /\ Served.resp.status = 413
                   /\ Served.resp.detail = "Too many photos in ZIP"
       /\ (Served.pc = "done" /\ Served.resp.status = 413) =>
             /\ Snap = before
             /\ Served.resp.uploadKey = <<>>

\* an archive within the byte limit with a .jpg and a .PNG entry has been refused
C11_Witness ==
    /\ Served.op = "upload" /\ Served.pc = "done"
    /\ Served.resp.status = 413
    /\ Uploaded.size = 1048576
    /\ Cardinality(UploadedImages) = 2
    /\ \E i \in UploadedImages : Uploaded.names[i] = <<"B", ".", "P", "N", "G">>
    /\ blobs # {}

\* C12: with no salt configured, a protected route called on an album that has a
\* stored hash ends in an error whatever code is supplied (403 for none, 500
\* otherwise), returns no photos or clusters and leaves the store as it was.
C12_NoSaltNoAccess ==
    (/\ ALBUM_CODE_SALT = <<>>
     /\ Served.op \in ProtectedOps /\ Served.pc # "idle"
     /\ \E r \in GateRows : r.access_code_hash # <<>>)
    => /\ Served.pc = "done"
       /\ Served.resp.status =
             IF Served.args.x_album_code = <<>> /\ Served.args.code = <<>>
             THEN 403 ELSE 500
       /\ Served.resp.items = {}
       /\ Snap = before

\* a deleteAlbum with the minted code was answered 500 on a protected album
C12_Witness ==
    /\ ALBUM_CODE_SALT = <<>>
    /\ Served.op = "delete" /\ Served.pc = "done"
    /\ Served.args.x_album_code = LegacyCode
    /\ Served.resp.status = 500
    /\ \E r \in albums : r.id = Served.args.album_id /\ r.access_code_hash # <<>>
    /\ \E ph \in photos : ph.album_id = Served.args.album_id

\* C13: with submits served one at a time, pipeline transitions and deletions,
\* at most one album of a fingerprint is queued or processing.
C13_OneActiveAlbumPerFingerprint ==
    \A a \in albums : \A b \in albums :
       (/\ a.fingerprint = b.fingerprint
        /\ a.status \in {"queued", "processing"}
        /\ b.status \in {"queued", "processing"})
       => a.id = b.id

\* a fingerprint has a finished album and, after a new submit, a processing one
C13_Witness ==
    \E a \in albums : \E b \in albums :
       /\ a.fingerprint = b.fingerprint
       /\ a.id < b.id
       /\ a.status = "completed"
       /\ b.status = "processing"

\* C14: in every step an album row's progress does not decrease; a row that
\* appears is queued with progress 0; a row that becomes failed keeps the
\* progress it had; and progress is 100 only on a completed row.
C14_ProgressMonotone ==
    [][\A r \in albums' :
          /\ \A q \in albums :
                q.id = r.id =>
                   /\ r.progress >= q.progress
                   /\ (r.status = "failed" /\ q.status # "failed")
                         => r.progress = q.progress
          /\ (\A q \in albums : q.id # r.id) =>
                (r.status = "queued" /\ r.progress = 0)
          /\ r.progress = 100 => r.status = "completed"]_vars

\* a poll has shown a failed album stopped at the progress its ingest reached
C14_Witness ==
    /\ Served.op = "getStatus" /\ Served.pc = "done"
    /\ Served.resp.albumStatus = "failed"
    /\ Served.resp.progress = 80
    /\ Served.resp.errorMessage # ""

\* a code with case, blanks and group separators taken away
Canonical(code) ==
    LET Kept(ch) == ch \notin {" ", "\t", "-", "_"}
    IN  SelectSeq(Upper(code), Kept)

\* C15: whatever the case, the blanks and the group separators a code is typed
\* with, the gate answers as for the same code typed as issued: every form of
\* the minted code passes the gate of its album.
C15_VerifyIgnoresFormatting ==
    (/\ Served.op \in ProtectedOps /\ Served.pc # "idle"
     /\ ALBUM_CODE_SALT = <<"s">>
     /\ \E r \in GateRows : r.access_code_hash # <<>>
     /\ Canonical(Served.args.x_album_code) = Canonical(LegacyCode))
    => Served.resp.detail \notin GateErrorDetails

\* the blobs of the album a deleteAlbum was called on that are still stored
BlobsLeft ==
    LET a == Served.args.album_id
        mine == {ph.storage_path : ph \in {ph \in before.photos : ph.album_id = a}}
                \cup {<<"a", Digits[a], "t", Digits[f.id]>> :
                         f \in {f \in before.faces : f.album_id = a}}
                \cup {r.upload_key : r \in {r \in before.albums : r.id = a}}
    IN  mine \cap blobs

\* C16: a deleteAlbum that got through the gate and has ended with blobs of
\* the album still stored (a blob removal failed) reports success, and the album
\* row and every job, photo, face, cluster and link of the album are gone.
C16_BlobFailureSwallowed ==
    (/\ Served.op = "delete" /\ Served.pc = "done"
     /\ Served.resp.detail \notin GateErrorDetails
     /\ BlobsLeft # {})
    => LET a == Served.args.album_id
       IN  /\ Served.resp.status = 200
           /\ \A r \in albums : r.id # a
           /\ \A j \in jobs : j.album_id # a
           /\ \A ph \in photos : ph.album_id # a
           /\ \A f \in faces : f.album_id # a
           /\ \A c \in clusters : c.album_id # a
           /\ \A l \in links :
                 l.photo_id \notin {ph.id : ph \in {ph \in before.photos : ph.album_id = a}}

\* a deleteAlbum whose face-thumbnail removal failed after the photo blobs were
\* removed has ended with success
C16_Witness ==
    /\ Served.op = "delete" /\ Served.pc = "done" /\ Served.resp.status = 200
    /\ faulted
    /\ BlobsLeft # {}
    /\ \E ph \in before.photos :
          /\ ph.album_id = Served.args.album_id
          /\ ph.storage_path \notin blobs
    /\ before.links # {} /\ links = {}

\* C17: a downloadArchive that got through the gate answers 404 when the
\* cluster has no linked photos, and otherwise returns an archive of at most the
\* per-album limit of the cluster's photos.
C17_DownloadCapped ==
    (/\ Served.op = "download" /\ Served.pc = "done"
     /\ Served.resp.detail \notin GateErrorDetails)
    => LET linked == {l.photo_id : l \in {l \in before.links :
                                             l.cluster_id = Served.args.clusterId}}
       IN  IF linked = {}
           THEN Served.resp.status = 404
           ELSE /\ Served.resp.status = 200
                /\ Served.resp.items \subseteq linked
                /\ Cardinality(Served.resp.items) <= MAX_PHOTOS_PER_ALBUM

\* C18: the photos a listPhotos or a downloadArchive returns all belong to the
\* album the call was made on (whose gate the caller passed).
C18_ClusterReadsStayInAlbum ==
    (/\ Served.op \in {"listPhotos", "download"} /\ Served.pc = "done"
     /\ Served.resp.status = 200)
    => \A ph \in before.photos :
          ph.id \in Served.resp.items => ph.album_id = Served.args.album_id

\* C19: no album row has an empty fingerprint or an empty archive key and no
\* job row an empty archive path.
C19_NoEmptyKeys ==
    /\ \A a \in albums : a.fingerprint # <<>> /\ a.upload_key # <<>>
    /\ \A j \in jobs : j.zip_path # <<>>

\* C20: when the store operations of a submit and of a deleteAlbum on the same
\* album interleave, then once no call is under way every job row's album_id is
\* the id of an album row.
C20_NoOrphanJob ==
    (\A p \in {"r1", "r2"} : procs[p].pc \in {"idle", "done"})
    => \A j \in jobs : \E a \in albums : a.id = j.album_id

====
